---- MODULE Spec2Model ----
(***************************************************************************)
(* A model of src/relay/tcprelay/client.rs: the SOCKS5 client handshake    *)
(* (Socks5Client::connect, Socks5Client::udp_associate), the shadowsocks   *)
(* client constructor (ServerClient::connect) and the AsyncRead/AsyncWrite *)
(* delegation of both clients.                                             *)
(*                                                                         *)
(* An async fn is a state machine suspended at its awaits.  pc names the   *)
(* await the handshake is suspended at (the operation has been issued and  *)
(* has not completed); one action per await completes it with a result     *)
(* drawn from what the stream can deliver, runs the synchronous code up to *)
(* the next await and issues that.  ops is the history of the I/O          *)
(* operations that completed on the proxy connection, in order.            *)
(***************************************************************************)
EXTENDS Integers, Sequences, FiniteSets, TLC

VARIABLES
    mode,      \* which async fn was called: "connect" or "udp_associate"
    addr,      \* the caller's target address (the argument addr: A)
    proxy,     \* the proxy's socket address (the argument proxy)
    pc,        \* the await the call is suspended at, "init", "done" or
               \* "cancelled"
    ops,       \* completed I/O operations on the connection, oldest first
    hsp,       \* local hsp: the handshake response once read
    hp,        \* local hp: the connection response once read
    result,    \* what the call returned: none yet, Ok, Err or a panic, or
               \* that it was cancelled
    stream,    \* the TcpStream s: its state and who owns it
    scpc,      \* ServerClient::connect: the await it is suspended at
    scaddr,    \* ServerClient::connect: the argument addr
    scops,     \* ServerClient::connect: completed operations, oldest first
    scresult,  \* ServerClient::connect: what the call returned
    io,        \* the last poll_* call made on a client, and what it did
    shut,      \* the clients whose stream completed a shutdown
    cur,       \* the session whose call the variables above describe
    parked     \* the other sessions' calls, as last left by their own steps

hvars == <<mode, addr, proxy, pc, ops, hsp, hp, result, stream>>
scvars == <<scpc, scaddr, scops, scresult>>
vars == <<hvars, scvars, io, shut, cur, parked>>

----------------------------------------------------------------------------
(* Bounds of the model *)

MaxHost == 1          \* host identifiers 0..MaxHost per address variant
MaxMethod == 2        \* method codes 0..MaxMethod
MaxReply == 9         \* reply codes 0..MaxReply
MaxBufLen == 1        \* caller buffers of 0..MaxBufLen bytes

(* The "no authentication" method code of relay::socks5 *)

SOCKS5_AUTH_METHOD_NONE == 0

----------------------------------------------------------------------------
(* Values *)

NoVal == [tag |-> "none"]

Hosts == 0..MaxHost

\* What a caller may pass as addr: a socket address (IPv4 or IPv6) or a
\* (name, port) pair.
CallerAddrs ==
    [tag : {"SocketAddrV4", "SocketAddrV6", "HostPort"}, host : Hosts, port : {443}]

\* socks5::Address: SocketAddress(v4 | v6) or DomainNameAddress(name, port).
Addresses ==
    [tag : {"Address"}, atyp : {"ipv4", "ipv6", "domain"}, host : Hosts, port : {443}]

\* Address: From<A>, applied to the caller's addr.
AddressFrom(a) ==
    [tag |-> "Address",
     atyp |-> CASE a.tag = "SocketAddrV4" -> "ipv4"
                [] a.tag = "SocketAddrV6" -> "ipv6"
                [] OTHER -> "domain",
     host |-> a.host,
     port |-> a.port]

Proxies == {[tag |-> "SocketAddrV4", host |-> 0, port |-> 1080]}

Methods == 0..MaxMethod

ReplyCodes == 0..MaxReply

\* socks5::Reply as parsed from the reply byte: 0 is Succeeded, 1..8 are the
\* named failures, every other byte is OtherReply(byte).
Reply(code) ==
    IF code = 0 THEN [tag |-> "Succeeded"]
    ELSE IF code \in 1..8 THEN
        [tag |-> <<"GeneralFailure", "ConnectionNotAllowed", "NetworkUnreachable",
                   "HostUnreachable", "ConnectionRefused", "TtlExpired",
                   "CommandNotSupported", "AddressTypeNotSupported">>[code]]
    ELSE [tag |-> "OtherReply", code |-> code]

Replies == {Reply(c) : c \in ReplyCodes}

\* The reply byte a Reply stands for.
ReplyCode(r) == CHOOSE c \in ReplyCodes : Reply(c) = r

\* format!("{}", r): the Display text of a reply.
ReplyDisplay(r) ==
    CASE r.tag = "Succeeded" -> "Succeeded"
      [] r.tag = "GeneralFailure" -> "General failure"
      [] r.tag = "ConnectionNotAllowed" -> "Connection not allowed"
      [] r.tag = "NetworkUnreachable" -> "Network unreachable"
      [] r.tag = "HostUnreachable" -> "Host unreachable"
      [] r.tag = "ConnectionRefused" -> "Connection refused"
      [] r.tag = "TtlExpired" -> "TTL expired"
      [] r.tag = "CommandNotSupported" -> "Command not supported"
      [] r.tag = "AddressTypeNotSupported" -> "Address type not supported"
      [] OTHER -> "Other reply (" \o ToString(r.code) \o ")"

HandshakeRequestNew(methods) == [tag |-> "HandshakeRequest", methods |-> methods]

HandshakeResponses == [tag : {"HandshakeResponse"}, chosen_method : Methods]

TcpRequestHeaderNew(command, address) ==
    [tag |-> "TcpRequestHeader", command |-> command, address |-> address]

TcpResponseHeaders == [tag : {"TcpResponseHeader"}, reply : Replies, address : Addresses]

IoError(kind) == [tag |-> "Error", kind |-> kind, msg |-> ""]

\* The error built with one text for every reply.
ReplyError_Fixed(r) == [tag |-> "Error", kind |-> "Other", msg |-> "General failure"]

\* io::Error::new(io::ErrorKind::Other, format!("{}", r))
ReplyError(r) == [tag |-> "Error", kind |-> "Other", msg |-> ReplyDisplay(r)]

ConnectErrors == {IoError("ConnectionRefused")}
WriteErrors == {IoError("BrokenPipe")}
FlushErrors == {IoError("BrokenPipe")}
\* What read_from fails with: end of stream before a whole message
\* (UnexpectedEof), a message that does not decode (InvalidData), or the
\* transport's own error.
ReadErrors == {IoError("UnexpectedEof"), IoError("InvalidData"), IoError("ConnectionReset")}

Unit == [tag |-> "Unit"]

\* Targets handed to ServerClient::connect, one per address variant.
ServerAddrs == {a \in Addresses : a.host = 0 /\ a.port = 443}

ProxiedErrors == {IoError("ConnectionRefused")}

\* Caller buffers: byte strings of at most MaxBufLen bytes.
Bytes == {0}
Bufs == UNION {[1..n -> Bytes] : n \in 0..MaxBufLen}

\* What one poll of a byte stream can return: Poll::Pending or
\* Poll::Ready(Ok(n)) with n <= buf.len(), or Poll::Ready(Err(e)); flush and
\* shutdown return Poll::Ready(Ok(())) in place of a count.
Pending == [tag |-> "Pending"]
ReadyOk(v) == [tag |-> "ReadyOk", val |-> v]
ReadyErr(e) == [tag |-> "ReadyErr", error |-> e]
PollErrors == {IoError("ConnectionReset")}
StreamResults(call) ==
    {Pending} \cup {ReadyErr(e) : e \in PollErrors} \cup
    (IF call.op \in {"poll_read", "poll_write"}
        THEN {ReadyOk(n) : n \in 0..Len(call.buf)}
        ELSE {ReadyOk(0)})
AllResults ==
    {Pending} \cup {ReadyErr(e) : e \in PollErrors} \cup {ReadyOk(n) : n \in 0..MaxBufLen}

----------------------------------------------------------------------------
(* The handshake *)

\* One completed operation on the connection: Ok(val) or Err(val).
Ev(op, ok, val) == [op |-> op, ok |-> ok, val |-> val]

Init ==
    /\ mode \in {"connect", "udp_associate"}
    /\ addr \in CallerAddrs
    /\ proxy \in Proxies
    /\ pc = "init"
    /\ ops = <<>>
    /\ hsp = NoVal
    /\ hp = NoVal
    /\ result = NoVal
    /\ stream = [state |-> "none", owner |-> "none"]
    /\ scpc = "init"
    /\ scaddr \in ServerAddrs
    /\ scops = <<>>
    /\ scresult = NoVal
    /\ io = NoVal
    /\ shut = {}
    /\ cur = "s1"
    /\ parked = <<>>

\* The owner gone and the socket still open.
Dropped_Leaks(s) == s

\* The value is dropped with the connection it owns: the socket is closed.
Dropped(s) == IF s.state = "open" THEN [state |-> "closed", owner |-> "none"] ELSE s

\* The error of the failed step replaced by a general one on the way out.
ReturnErr_Generic(e) ==
    /\ pc' = "done"
    /\ result' = [tag |-> "Err", error |-> IoError("Other")]
    /\ stream' = Dropped(stream)

\* return Err(e), also by the ? operator: the local s, if any, is dropped.
ReturnErr(e) ==
    /\ pc' = "done"
    /\ result' = [tag |-> "Err", error |-> e]
    /\ stream' = Dropped(stream)

\* A failed assert_eq! panics: the call returns nothing, s is released.
Panic ==
    /\ pc' = "done"
    /\ result' = [tag |-> "Panic"]
    /\ stream' = Dropped(stream)

\* The next await is issued on the same connection.
Await(next) ==
    /\ pc' = next
    /\ UNCHANGED <<result, stream>>

\* The assertion compiled out: every chosen method is let through.
CheckMethod_Unchecked(h) == TRUE

\* assert_eq!(hsp.chosen_method, socks5::SOCKS5_AUTH_METHOD_NONE)
CheckMethod(h) == h.chosen_method = SOCKS5_AUTH_METHOD_NONE

\* match hp.reply { Reply::Succeeded => (), r => return Err(..) }
IsSucceeded(reply) == reply.tag = "Succeeded"

\* The call is made: TcpStream::connect(proxy) is issued.
Call ==
    /\ pc = "init"
    /\ pc' = "tcp_connect"
    /\ UNCHANGED <<mode, addr, proxy, ops, hsp, hp, result, stream>>
    /\ UNCHANGED <<scvars, io, shut, cur, parked>>

(* Socks5Client::connect *)

\* connect reading the handshake response before writing the request.
connect_TcpConnect_ReadFirst ==
    /\ mode = "connect" /\ pc = "tcp_connect"
    /\ \/ /\ ops' = Append(ops, Ev("tcp_connect", TRUE, proxy))
          /\ stream' = [state |-> "open", owner |-> "future"]
          /\ pc' = "hs_read"
          /\ UNCHANGED result
       \/ \E e \in ConnectErrors :
            /\ ops' = Append(ops, Ev("tcp_connect", FALSE, e))
            /\ ReturnErr(e)
    /\ UNCHANGED <<mode, addr, proxy, hsp, hp>>
    /\ UNCHANGED <<scvars, io, shut, cur, parked>>

connect_TcpConnect ==
    /\ mode = "connect" /\ pc = "tcp_connect"
    /\ \/ /\ ops' = Append(ops, Ev("tcp_connect", TRUE, proxy))
          /\ stream' = [state |-> "open", owner |-> "future"]
          /\ pc' = "hs_write"
          /\ UNCHANGED result
       \/ \E e \in ConnectErrors :
            /\ ops' = Append(ops, Ev("tcp_connect", FALSE, e))
            /\ ReturnErr(e)
    /\ UNCHANGED <<mode, addr, proxy, hsp, hp>>
    /\ UNCHANGED <<scvars, io, shut, cur, parked>>

connect_HsWrite ==
    /\ mode = "connect" /\ pc = "hs_write"
    /\ LET hs == HandshakeRequestNew(<<SOCKS5_AUTH_METHOD_NONE>>) IN
       \/ /\ ops' = Append(ops, Ev("hs_write", TRUE, hs))
          /\ Await("hs_read")
       \/ \E e \in WriteErrors :
            /\ ops' = Append(ops, Ev("hs_write", FALSE, e))
            /\ ReturnErr(e)
    /\ UNCHANGED <<mode, addr, proxy, hsp, hp>>
    /\ UNCHANGED <<scvars, io, shut, cur, parked>>

\* connect keeping the handshake response in a place all sessions share.
connect_HsRead_Shared ==
    /\ mode = "connect" /\ pc = "hs_read"
    /\ \/ \E r \in HandshakeResponses :
            /\ ops' = Append(ops, Ev("hs_read", TRUE, r))
            /\ hsp' = r
            /\ parked' = [k \in DOMAIN parked |-> [parked[k] EXCEPT !.hsp = r]]
            /\ IF CheckMethod(r) THEN Await("req_write") ELSE Panic
       \/ \E e \in ReadErrors :
            /\ ops' = Append(ops, Ev("hs_read", FALSE, e))
            /\ hsp' = hsp
            /\ parked' = parked
            /\ ReturnErr(e)
    /\ UNCHANGED <<mode, addr, proxy, hp>>
    /\ UNCHANGED <<scvars, io, shut, cur>>

\* connect sending the handshake request again when its response fails.
connect_HsRead_Retry ==
    /\ mode = "connect" /\ pc = "hs_read"
    /\ \/ \E r \in HandshakeResponses :
            /\ ops' = Append(ops, Ev("hs_read", TRUE, r))
            /\ hsp' = r
            /\ IF CheckMethod(r) THEN Await("req_write") ELSE Panic
       \/ \E e \in ReadErrors :
            /\ ops' = Append(ops, Ev("hs_read", FALSE, e))
            /\ hsp' = hsp
            /\ Await("hs_write")
    /\ UNCHANGED <<mode, addr, proxy, hp>>
    /\ UNCHANGED <<scvars, io, shut, cur, parked>>

connect_HsRead ==
    /\ mode = "connect" /\ pc = "hs_read"
    /\ \/ \E r \in HandshakeResponses :
            /\ ops' = Append(ops, Ev("hs_read", TRUE, r))
            /\ hsp' = r
            /\ IF CheckMethod(r) THEN Await("req_write") ELSE Panic
       \/ \E e \in ReadErrors :
            /\ ops' = Append(ops, Ev("hs_read", FALSE, e))
            /\ hsp' = hsp
            /\ ReturnErr(e)
    /\ UNCHANGED <<mode, addr, proxy, hp>>
    /\ UNCHANGED <<scvars, io, shut, cur, parked>>

\* connect sending the command of udp_associate.
connect_ReqWrite_UdpCommand ==
    /\ mode = "connect" /\ pc = "req_write"
    /\ LET h == TcpRequestHeaderNew("UdpAssociate", AddressFrom(addr)) IN
       \/ /\ ops' = Append(ops, Ev("req_write", TRUE, h))
          /\ Await("req_read")
       \/ \E e \in WriteErrors :
            /\ ops' = Append(ops, Ev("req_write", FALSE, e))
            /\ ReturnErr(e)
    /\ UNCHANGED <<mode, addr, proxy, hsp, hp>>
    /\ UNCHANGED <<scvars, io, shut, cur, parked>>

connect_ReqWrite ==
    /\ mode = "connect" /\ pc = "req_write"
    /\ LET h == TcpRequestHeaderNew("TcpConnect", AddressFrom(addr)) IN
       \/ /\ ops' = Append(ops, Ev("req_write", TRUE, h))
          /\ Await("req_read")
       \/ \E e \in WriteErrors :
            /\ ops' = Append(ops, Ev("req_write", FALSE, e))
            /\ ReturnErr(e)
    /\ UNCHANGED <<mode, addr, proxy, hsp, hp>>
    /\ UNCHANGED <<scvars, io, shut, cur, parked>>

\* connect handing the bound address of the response to the caller.
ConnectOk_WithAddress(h) ==
    [tag |-> "Ok", client |-> [stream |-> "s"], address |-> h.address]

\* Ok(Socks5Client { stream: s })
ConnectOk(h) == [tag |-> "Ok", client |-> [stream |-> "s"]]

connect_ReqRead ==
    /\ mode = "connect" /\ pc = "req_read"
    /\ \/ \E r \in TcpResponseHeaders :
            /\ ops' = Append(ops, Ev("req_read", TRUE, r))
            /\ hp' = r
            /\ IF IsSucceeded(r.reply)
               THEN /\ pc' = "done"
                    /\ result' = ConnectOk(r)
                    /\ stream' = [state |-> "open", owner |-> "client"]
               ELSE ReturnErr(ReplyError(r.reply))
       \/ \E e \in ReadErrors :
            /\ ops' = Append(ops, Ev("req_read", FALSE, e))
            /\ hp' = hp
            /\ ReturnErr(e)
    /\ UNCHANGED <<mode, addr, proxy, hsp>>
    /\ UNCHANGED <<scvars, io, shut, cur, parked>>

(* Socks5Client::udp_associate *)

udp_associate_TcpConnect ==
    /\ mode = "udp_associate" /\ pc = "tcp_connect"
    /\ \/ /\ ops' = Append(ops, Ev("tcp_connect", TRUE, proxy))
          /\ stream' = [state |-> "open", owner |-> "future"]
          /\ pc' = "hs_write"
          /\ UNCHANGED result
       \/ \E e \in ConnectErrors :
            /\ ops' = Append(ops, Ev("tcp_connect", FALSE, e))
            /\ ReturnErr(e)
    /\ UNCHANGED <<mode, addr, proxy, hsp, hp>>
    /\ UNCHANGED <<scvars, io, shut, cur, parked>>

\* udp_associate without the flush after the handshake request.
udp_associate_HsWrite_NoFlush ==
    /\ mode = "udp_associate" /\ pc = "hs_write"
    /\ LET hs == HandshakeRequestNew(<<SOCKS5_AUTH_METHOD_NONE>>) IN
       \/ /\ ops' = Append(ops, Ev("hs_write", TRUE, hs))
          /\ Await("hs_read")
       \/ \E e \in WriteErrors :
            /\ ops' = Append(ops, Ev("hs_write", FALSE, e))
            /\ ReturnErr(e)
    /\ UNCHANGED <<mode, addr, proxy, hsp, hp>>
    /\ UNCHANGED <<scvars, io, shut, cur, parked>>

udp_associate_HsWrite ==
    /\ mode = "udp_associate" /\ pc = "hs_write"
    /\ LET hs == HandshakeRequestNew(<<SOCKS5_AUTH_METHOD_NONE>>) IN
       \/ /\ ops' = Append(ops, Ev("hs_write", TRUE, hs))
          /\ Await("hs_flush")
       \/ \E e \in WriteErrors :
            /\ ops' = Append(ops, Ev("hs_write", FALSE, e))
            /\ ReturnErr(e)
    /\ UNCHANGED <<mode, addr, proxy, hsp, hp>>
    /\ UNCHANGED <<scvars, io, shut, cur, parked>>

udp_associate_HsFlush ==
    /\ mode = "udp_associate" /\ pc = "hs_flush"
    /\ \/ /\ ops' = Append(ops, Ev("hs_flush", TRUE, Unit))
          /\ Await("hs_read")
       \/ \E e \in FlushErrors :
            /\ ops' = Append(ops, Ev("hs_flush", FALSE, e))
            /\ ReturnErr(e)
    /\ UNCHANGED <<mode, addr, proxy, hsp, hp>>
    /\ UNCHANGED <<scvars, io, shut, cur, parked>>

udp_associate_HsRead ==
    /\ mode = "udp_associate" /\ pc = "hs_read"
    /\ \/ \E r \in HandshakeResponses :
            /\ ops' = Append(ops, Ev("hs_read", TRUE, r))
            /\ hsp' = r
            /\ IF CheckMethod(r) THEN Await("req_write") ELSE Panic
       \/ \E e \in ReadErrors :
            /\ ops' = Append(ops, Ev("hs_read", FALSE, e))
            /\ hsp' = hsp
            /\ ReturnErr(e)
    /\ UNCHANGED <<mode, addr, proxy, hp>>
    /\ UNCHANGED <<scvars, io, shut, cur, parked>>

udp_associate_ReqWrite ==
    /\ mode = "udp_associate" /\ pc = "req_write"
    /\ LET h == TcpRequestHeaderNew("UdpAssociate", AddressFrom(addr)) IN
       \/ /\ ops' = Append(ops, Ev("req_write", TRUE, h))
          /\ Await("req_flush")
       \/ \E e \in WriteErrors :
            /\ ops' = Append(ops, Ev("req_write", FALSE, e))
            /\ ReturnErr(e)
    /\ UNCHANGED <<mode, addr, proxy, hsp, hp>>
    /\ UNCHANGED <<scvars, io, shut, cur, parked>>

udp_associate_ReqFlush ==
    /\ mode = "udp_associate" /\ pc = "req_flush"
    /\ \/ /\ ops' = Append(ops, Ev("req_flush", TRUE, Unit))
          /\ Await("req_read")
       \/ \E e \in FlushErrors :
            /\ ops' = Append(ops, Ev("req_flush", FALSE, e))
            /\ ReturnErr(e)
    /\ UNCHANGED <<mode, addr, proxy, hsp, hp>>
    /\ UNCHANGED <<scvars, io, shut, cur, parked>>

\* udp_associate returning the target address in place of the bound one.
UdpAssociateOk_Target(h, a) ==
    [tag |-> "Ok", client |-> [stream |-> "s"], address |-> AddressFrom(a)]

\* Ok((Socks5Client { stream: s }, hp.address))
UdpAssociateOk(h, a) == [tag |-> "Ok", client |-> [stream |-> "s"], address |-> h.address]

udp_associate_ReqRead ==
    /\ mode = "udp_associate" /\ pc = "req_read"
    /\ \/ \E r \in TcpResponseHeaders :
            /\ ops' = Append(ops, Ev("req_read", TRUE, r))
            /\ hp' = r
            /\ IF IsSucceeded(r.reply)
               THEN /\ pc' = "done"
                    /\ result' = UdpAssociateOk(r, addr)
                    /\ stream' = [state |-> "open", owner |-> "client"]
               ELSE ReturnErr(ReplyError(r.reply))
       \/ \E e \in ReadErrors :
            /\ ops' = Append(ops, Ev("req_read", FALSE, e))
            /\ hp' = hp
            /\ ReturnErr(e)
    /\ UNCHANGED <<mode, addr, proxy, hsp>>
    /\ UNCHANGED <<scvars, io, shut, cur, parked>>

\* The awaits of the two functions: the points where the future can be
\* dropped by its owner.
SuspensionPoints ==
    {"tcp_connect", "hs_write", "hs_flush", "hs_read", "req_write", "req_flush", "req_read"}

\* The future dropped with its socket kept open by something else.
Cancel_Leaks ==
    /\ pc \in SuspensionPoints
    /\ pc' = "cancelled"
    /\ result' = [tag |-> "Cancelled"]
    /\ UNCHANGED <<mode, addr, proxy, ops, hsp, hp, stream>>
    /\ UNCHANGED <<scvars, io, shut, cur, parked>>

\* The caller drops the future of connect or udp_associate while it is
\* suspended: the pending operation never completes, and the local s, which
\* the future owns, is dropped with it.
Cancel ==
    /\ pc \in SuspensionPoints
    /\ pc' = "cancelled"
    /\ result' = [tag |-> "Cancelled"]
    /\ stream' = Dropped(stream)
    /\ UNCHANGED <<mode, addr, proxy, ops, hsp, hp>>
    /\ UNCHANGED <<scvars, io, shut, cur, parked>>

Handshake ==
    \/ Call
    \/ connect_TcpConnect
    \/ connect_HsWrite
    \/ connect_HsRead
    \/ connect_ReqWrite
    \/ connect_ReqRead
    \/ udp_associate_TcpConnect
    \/ udp_associate_HsWrite
    \/ udp_associate_HsFlush
    \/ udp_associate_HsRead
    \/ udp_associate_ReqWrite
    \/ udp_associate_ReqFlush
    \/ udp_associate_ReqRead

----------------------------------------------------------------------------
(* ServerClient::connect *)

sc_Call ==
    /\ scpc = "init"
    /\ scpc' = "connect_proxied"
    /\ UNCHANGED <<scaddr, scops, scresult, hvars, io, shut, cur, parked>>

\* The opaque stream ProxyStream::connect_proxied returns for a target.
ProxyStreamTo(a) == [tag |-> "ProxyStream", target |-> a]

\* ServerClient::connect opening the stream with a SOCKS5 handshake request.
sc_connect_Handshake ==
    /\ scpc = "connect_proxied"
    /\ \/ /\ scops' = scops \o
                <<Ev("connect_proxied", TRUE, ProxyStreamTo(scaddr)),
                  Ev("hs_write", TRUE, HandshakeRequestNew(<<SOCKS5_AUTH_METHOD_NONE>>))>>
          /\ scresult' = [tag |-> "Ok", client |-> [stream |-> ProxyStreamTo(scaddr)]]
       \/ \E e \in ProxiedErrors :
            /\ scops' = Append(scops, Ev("connect_proxied", FALSE, e))
            /\ scresult' = [tag |-> "Err", error |-> e]
    /\ scpc' = "done"
    /\ UNCHANGED <<scaddr, hvars, io, shut, cur, parked>>

sc_connect ==
    /\ scpc = "connect_proxied"
    /\ \/ /\ scops' = Append(scops, Ev("connect_proxied", TRUE, ProxyStreamTo(scaddr)))
          /\ scresult' = [tag |-> "Ok", client |-> [stream |-> ProxyStreamTo(scaddr)]]
       \/ \E e \in ProxiedErrors :
            /\ scops' = Append(scops, Ev("connect_proxied", FALSE, e))
            /\ scresult' = [tag |-> "Err", error |-> e]
    /\ scpc' = "done"
    /\ UNCHANGED <<scaddr, hvars, io, shut, cur, parked>>

----------------------------------------------------------------------------
(* impl AsyncRead / AsyncWrite for Socks5Client and for ServerClient.      *)
(* Each method is the list of calls it makes on self.stream, and the call  *)
(* whose result it returns.                                                *)

StreamCall(op, buf) == [op |-> op, buf |-> buf]

Socks5Client_poll_read(buf) == [calls |-> <<StreamCall("poll_read", buf)>>, ret |-> 1]
Socks5Client_poll_write(buf) == [calls |-> <<StreamCall("poll_write", buf)>>, ret |-> 1]
Socks5Client_poll_flush == [calls |-> <<StreamCall("poll_flush", <<>>)>>, ret |-> 1]
Socks5Client_poll_shutdown == [calls |-> <<StreamCall("poll_shutdown", <<>>)>>, ret |-> 1]

ServerClient_poll_read(buf) == [calls |-> <<StreamCall("poll_read", buf)>>, ret |-> 1]
ServerClient_poll_write(buf) == [calls |-> <<StreamCall("poll_write", buf)>>, ret |-> 1]
ServerClient_poll_flush == [calls |-> <<StreamCall("poll_flush", <<>>)>>, ret |-> 1]
\* poll_shutdown forwarding to poll_flush.
ServerClient_poll_shutdown_Flush == [calls |-> <<StreamCall("poll_flush", <<>>)>>, ret |-> 1]
ServerClient_poll_shutdown == [calls |-> <<StreamCall("poll_shutdown", <<>>)>>, ret |-> 1]

\* The method body of client c for operation op.
Method(c, op, buf) ==
    IF c = "Socks5Client"
    THEN CASE op = "poll_read" -> Socks5Client_poll_read(buf)
           [] op = "poll_write" -> Socks5Client_poll_write(buf)
           [] op = "poll_flush" -> Socks5Client_poll_flush
           [] OTHER -> Socks5Client_poll_shutdown
    ELSE CASE op = "poll_read" -> ServerClient_poll_read(buf)
           [] op = "poll_write" -> ServerClient_poll_write(buf)
           [] op = "poll_flush" -> ServerClient_poll_flush
           [] OTHER -> ServerClient_poll_shutdown

\* One call of a method: the wrapped stream answers each call the method
\* makes on it, and the method returns the answer it selects.  The record
\* notes whether the stream had already completed a shutdown.
Poll(c, op, buf, m) ==
    \E rs \in [1..Len(m.calls) -> AllResults] :
        /\ \A i \in 1..Len(m.calls) : rs[i] \in StreamResults(m.calls[i])
        /\ io' = [client |-> c, op |-> op, buf |-> buf,
                  calls |-> m.calls, answers |-> rs, ret |-> rs[m.ret],
                  shutBefore |-> c \in shut]
        /\ shut' = IF \E i \in 1..Len(m.calls) :
                        m.calls[i].op = "poll_shutdown" /\ rs[i].tag = "ReadyOk"
                   THEN shut \cup {c} ELSE shut

\* The caller holds a Socks5Client once connect or udp_associate returned Ok,
\* until it drops it.
HasSocks5Client == result.tag = "Ok" /\ stream.owner = "client"
HasServerClient == scresult.tag = "Ok"

s5_poll_read ==
    /\ HasSocks5Client
    /\ \E buf \in Bufs : Poll("Socks5Client", "poll_read", buf, Socks5Client_poll_read(buf))
    /\ UNCHANGED <<hvars, scvars, cur, parked>>

s5_poll_write ==
    /\ HasSocks5Client
    /\ \E buf \in Bufs : Poll("Socks5Client", "poll_write", buf, Socks5Client_poll_write(buf))
    /\ UNCHANGED <<hvars, scvars, cur, parked>>

s5_poll_flush ==
    /\ HasSocks5Client
    /\ Poll("Socks5Client", "poll_flush", <<>>, Socks5Client_poll_flush)
    /\ UNCHANGED <<hvars, scvars, cur, parked>>

s5_poll_shutdown ==
    /\ HasSocks5Client
    /\ Poll("Socks5Client", "poll_shutdown", <<>>, Socks5Client_poll_shutdown)
    /\ UNCHANGED <<hvars, scvars, cur, parked>>

sc_poll_read ==
    /\ HasServerClient
    /\ \E buf \in Bufs : Poll("ServerClient", "poll_read", buf, ServerClient_poll_read(buf))
    /\ UNCHANGED <<hvars, scvars, cur, parked>>

sc_poll_write ==
    /\ HasServerClient
    /\ \E buf \in Bufs : Poll("ServerClient", "poll_write", buf, ServerClient_poll_write(buf))
    /\ UNCHANGED <<hvars, scvars, cur, parked>>

sc_poll_flush ==
    /\ HasServerClient
    /\ Poll("ServerClient", "poll_flush", <<>>, ServerClient_poll_flush)
    /\ UNCHANGED <<hvars, scvars, cur, parked>>

sc_poll_shutdown ==
    /\ HasServerClient
    /\ Poll("ServerClient", "poll_shutdown", <<>>, ServerClient_poll_shutdown)
    /\ UNCHANGED <<hvars, scvars, cur, parked>>

ClientIo ==
    \/ s5_poll_read
    \/ s5_poll_write
    \/ s5_poll_flush
    \/ s5_poll_shutdown
    \/ sc_poll_read
    \/ sc_poll_write
    \/ sc_poll_flush
    \/ sc_poll_shutdown

\* The caller drops its Socks5Client: the struct has the one field stream
\* and no Drop of its own, so the TcpStream is dropped with it.
s5_Drop ==
    /\ HasSocks5Client
    /\ stream' = Dropped(stream)
    /\ UNCHANGED <<mode, addr, proxy, pc, ops, hsp, hp, result>>
    /\ UNCHANGED <<scvars, io, shut, cur, parked>>

Socks5Io ==
    \/ s5_poll_read
    \/ s5_poll_write
    \/ s5_poll_flush
    \/ s5_poll_shutdown

----------------------------------------------------------------------------
(* Specifications *)

\* The whole of client.rs: one call of connect or udp_associate, one call
\* of ServerClient::connect, and the use of the clients they return.
Next ==
    \/ Handshake
    \/ Cancel
    \/ sc_Call
    \/ sc_connect
    \/ ClientIo
    \/ s5_Drop

Spec == Init /\ [][Next]_vars

\* Socks5Client alone: the handshake, its cancellation, and the use of the
\* client it returns.
NextSocks5 ==
    \/ Handshake
    \/ Cancel
    \/ Socks5Io
    \/ s5_Drop

SpecSocks5 == Init /\ [][NextSocks5]_vars

\* Two sessions run as independent tasks: the executor polls one task at a
\* time and may turn to the other between any two steps.
SessionIds == {"s1", "s2"}

\* The call of the running session, as a value.
Running ==
    [mode |-> mode, addr |-> addr, proxy |-> proxy, pc |-> pc, ops |-> ops,
     hsp |-> hsp, hp |-> hp, result |-> result, stream |-> stream]

\* The executor leaves the running task at its await and polls task k.
Switch(k) ==
    /\ k \in DOMAIN parked
    /\ parked' = [x \in (DOMAIN parked \ {k}) \cup {cur} |->
                    IF x = cur THEN Running ELSE parked[x]]
    /\ cur' = k
    /\ mode' = parked[k].mode
    /\ addr' = parked[k].addr
    /\ proxy' = parked[k].proxy
    /\ pc' = parked[k].pc
    /\ ops' = parked[k].ops
    /\ hsp' = parked[k].hsp
    /\ hp' = parked[k].hp
    /\ result' = parked[k].result
    /\ stream' = parked[k].stream
    /\ UNCHANGED <<scvars, io, shut>>

\* Session s1 calls with a domain name, session s2 with an IPv6 address;
\* each calls connect or udp_associate.
InitSessions ==
    /\ mode \in {"connect", "udp_associate"}
    /\ addr = [tag |-> "HostPort", host |-> 0, port |-> 443]
    /\ proxy \in Proxies
    /\ pc = "init"
    /\ ops = <<>>
    /\ hsp = NoVal
    /\ hp = NoVal
    /\ result = NoVal
    /\ stream = [state |-> "none", owner |-> "none"]
    /\ scpc = "init"
    /\ scaddr \in ServerAddrs
    /\ scops = <<>>
    /\ scresult = NoVal
    /\ io = NoVal
    /\ shut = {}
    /\ cur = "s1"
    /\ \E m2 \in {"connect", "udp_associate"}, p2 \in Proxies :
          parked = [k \in SessionIds \ {"s1"} |->
                      [mode |-> m2,
                       addr |-> [tag |-> "SocketAddrV6", host |-> 1, port |-> 443],
                       proxy |-> p2, pc |-> "init", ops |-> <<>>, hsp |-> NoVal,
                       hp |-> NoVal, result |-> NoVal,
                       stream |-> [state |-> "none", owner |-> "none"]]]

NextSessions ==
    \/ Handshake
    \/ Cancel
    \/ \E k \in SessionIds : Switch(k)

SpecSessions == InitSessions /\ [][NextSessions]_vars

\* One call that is never cancelled and whose every issued operation
\* completes at some time, with success or with an error.
SpecLive == Init /\ [][Handshake]_vars /\ WF_vars(Handshake)

\* Both clients in use, for one target host of the handshake.
InitClients == Init /\ addr.host = 0

SpecClients == InitClients /\ [][Next]_vars
----------------------------------------------------------------------------
(* Properties *)

\* Positions in ops of the completed operations named op.
Idx(op) == {i \in 1..Len(ops) : ops[i].op = op}

\* Some operation op completed with Ok among the first n entries of ops.
OkWithin(op, n) == \E j \in 1..n : ops[j].op = op /\ ops[j].ok

\* Every operation b, completed or still pending, was issued after an
\* operation a completed with Ok.
After(a, b) ==
    /\ \A i \in Idx(b) : OkWithin(a, i - 1)
    /\ pc = b => OkWithin(a, Len(ops))

\* The four handshake steps in the order they completed.
IsStep(e) == e.op \in {"hs_write", "hs_read", "req_write", "req_read"}
Steps == [i \in 1..Len(SelectSeq(ops, IsStep)) |-> SelectSeq(ops, IsStep)[i].op]
StepOrder == <<"hs_write", "hs_read", "req_write", "req_read">>

\* C1: in connect and in udp_associate the handshake response is read only
\* after the handshake request was fully written, the connection request is
\* written only after the handshake response was received, and the connection
\* response is read only after the connection request was fully written; the
\* steps taken are always a prefix of write, read, write, read.
C1_HandshakeOrder ==
    /\ After("hs_write", "hs_read")
    /\ After("hs_read", "req_write")
    /\ After("req_write", "req_read")
    /\ Len(Steps) <= 4
    /\ Steps = SubSeq(StepOrder, 1, Len(Steps))

C1_Witness == Steps = StepOrder /\ pc = "done"

\* The peer chose a method other than "no authentication".
MethodMismatch ==
    \E i \in Idx("hs_read") :
        ops[i].ok /\ ops[i].val.chosen_method # SOCKS5_AUTH_METHOD_NONE

\* C2: when the peer chooses a method other than "no authentication" the call
\* returns an error, and no call ends in a panic.
C2_MismatchIsError ==
    /\ result.tag # "Panic"
    /\ MethodMismatch => result.tag = "Err"

\* C3: once the peer has chosen a method other than "no authentication", no
\* connection request is written (or flushed) and no connection response is
\* read, neither completed nor pending.
C3_NoRequestAfterMismatch ==
    MethodMismatch =>
        /\ Idx("req_write") \cup Idx("req_flush") \cup Idx("req_read") = {}
        /\ pc \notin {"req_write", "req_flush", "req_read"}
        /\ ops[Len(ops)].op = "hs_read"

C3_Witness == MethodMismatch /\ pc = "done"
\* The peer answered the connection request with a reply other than Succeeded.
Rejections ==
    {i \in Idx("req_read") : ops[i].ok /\ ops[i].val.reply.tag # "Succeeded"}

\* C4: for every reply other than Succeeded the call returns an error built
\* from that reply, whose text names that reply and no other; the response is
\* the last operation on the connection, which is closed and has no client.
C4_RejectedWithReply ==
    \A i \in Rejections :
        /\ pc = "done"
        /\ result.tag = "Err"
        /\ result.error.kind = "Other"
        /\ result.error.msg = ReplyDisplay(ops[i].val.reply)
        /\ \A r \in Replies : ReplyDisplay(r) = result.error.msg => r = ops[i].val.reply
        /\ i = Len(ops)
        /\ stream.state = "closed"
        /\ io # NoVal => io.client # "Socks5Client"

C4_Witness ==
    /\ Rejections # {}
    /\ hp.reply.tag = "OtherReply"
    /\ result.tag = "Err"

\* The operations a complete handshake consists of, per entry point.
FullRun ==
    IF mode = "connect"
    THEN <<"tcp_connect", "hs_write", "hs_read", "req_write", "req_read">>
    ELSE <<"tcp_connect", "hs_write", "hs_flush", "hs_read",
           "req_write", "req_flush", "req_read">>

\* Every operation of the handshake succeeded, the chosen method was "no
\* authentication" and the reply was Succeeded.
HandshakeComplete ==
    /\ [i \in 1..Len(ops) |-> ops[i].op] = FullRun
    /\ \A i \in 1..Len(ops) : ops[i].ok
    /\ ~MethodMismatch
    /\ Rejections = {}

\* C5: a client is returned if and only if every step succeeded with method
\* "no authentication" and reply Succeeded, and it then owns the open
\* connection until it is dropped; a call that ends in any other way returns
\* an error, returns no client, and its connection is closed.
C5_ClientIffComplete ==
    /\ result.tag = "Ok" <=> HandshakeComplete
    /\ result.tag = "Ok" => stream \in {[state |-> "open", owner |-> "client"],
                                       [state |-> "closed", owner |-> "none"]}
    /\ (pc = "done" /\ result.tag # "Ok") =>
            /\ result.tag = "Err"
            /\ stream.state # "open"

\* Read r is issued right after flush f completed with Ok, itself right after
\* write w completed with Ok.
FlushedBefore(w, f, r) ==
    /\ \A i \in Idx(r) :
        /\ i >= 3
        /\ ops[i - 1].op = f /\ ops[i - 1].ok
        /\ ops[i - 2].op = w /\ ops[i - 2].ok
    /\ pc = r =>
        /\ Len(ops) >= 2
        /\ ops[Len(ops)].op = f /\ ops[Len(ops)].ok
        /\ ops[Len(ops) - 1].op = w /\ ops[Len(ops) - 1].ok

\* A flush that failed is the last operation of the call, which returned its
\* error.
FailedFlushAborts ==
    \A i \in Idx("hs_flush") \cup Idx("req_flush") :
        ~ops[i].ok => /\ i = Len(ops)
                      /\ pc = "done"
                      /\ result = [tag |-> "Err", error |-> ops[i].val]

\* C6: in udp_associate each of the two reads is issued only once the flush
\* that follows the paired write has completed, and a failed flush ends the
\* call before the read.
C6_UdpFlushBeforeRead ==
    mode = "udp_associate" =>
        /\ FlushedBefore("hs_write", "hs_flush", "hs_read")
        /\ FlushedBefore("req_write", "req_flush", "req_read")
        /\ FailedFlushAborts

C6_Witness ==
    /\ mode = "udp_associate"
    /\ Idx("hs_read") # {}
    /\ Idx("req_read") # {}

\* C7: in connect as in udp_associate, every read is issued only once a flush
\* following the paired write has completed.
C7_FlushBeforeEveryRead ==
    /\ FlushedBefore("hs_write", "hs_flush", "hs_read")
    /\ FlushedBefore("req_write", "req_flush", "req_read")

\* The position of an await in the handshake.
Rank(p) ==
    CASE p = "init" -> 0
      [] p = "tcp_connect" -> 1
      [] p = "hs_write" -> 2
      [] p = "hs_flush" -> 3
      [] p = "hs_read" -> 4
      [] p = "req_write" -> 5
      [] p = "req_flush" -> 6
      [] p = "req_read" -> 7
      [] OTHER -> 8

\* C8: each of the two requests is written at most once and each of the two
\* responses is read at most once; the call only moves forward through its
\* steps, and once it has ended (with an error or not) it performs no further
\* operation and its result stands.
C8_SinglePass ==
    [][/\ \A op \in {"hs_write", "hs_read", "req_write", "req_read"} :
            Cardinality(Idx(op))' <= 1
       /\ pc' # pc => Rank(pc') > Rank(pc)
       /\ ops' # ops => Len(ops') = Len(ops) + 1 /\ SubSeq(ops', 1, Len(ops)) = ops
       /\ pc = "done" => pc' = "done" /\ ops' = ops /\ result' = result]_vars

C8_Witness ==
    /\ pc = "done"
    /\ result.tag = "Err"
    /\ Idx("hs_read") # {}
    /\ ~ops[Len(ops)].ok

\* C9: when udp_associate succeeds, the address it returns is the bound
\* address of the connection response the peer sent, whatever the variant.
C9_BoundAddressReturned ==
    (mode = "udp_associate" /\ result.tag = "Ok") =>
        /\ ops[Len(ops)].op = "req_read"
        /\ result.address = ops[Len(ops)].val.address

C9_Witness ==
    /\ mode = "udp_associate"
    /\ result.tag = "Ok"
    /\ result.address # AddressFrom(addr)
    /\ result.address.atyp = "domain"

\* C10: one poll_read, poll_write, poll_flush or poll_shutdown on either
\* client makes exactly one call of the same operation on the wrapped stream,
\* with the same buffer, and returns that call's result; the other client's
\* method does the same for the same call, and a client is nothing but its
\* stream.
C10_Delegation ==
    /\ io # NoVal =>
        /\ io.calls = <<StreamCall(io.op, io.buf)>>
        /\ io.ret = io.answers[1]
        /\ LET other == IF io.client = "Socks5Client" THEN "ServerClient"
                        ELSE "Socks5Client"
               m == Method(other, io.op, io.buf)
           IN /\ m.calls = io.calls
              /\ io.answers[m.ret] = io.ret
    /\ result.tag = "Ok" => DOMAIN result.client = {"stream"}
    /\ scresult.tag = "Ok" => DOMAIN scresult.client = {"stream"}

C10_Witness ==
    /\ io # NoVal
    /\ io.op = "poll_write"
    /\ Len(io.buf) = 1
    /\ io.ret = ReadyOk(1)

\* C11: a poll_shutdown made on a client whose stream has already completed
\* a shutdown does not fail.
C11_ShutdownIdempotent ==
    (io # NoVal /\ io.op = "poll_shutdown" /\ io.shutBefore) =>
        io.ret.tag # "ReadyErr"

\* C12: when the future of connect or udp_associate is dropped at an await,
\* its socket is closed, the session takes no further step and performs no
\* further operation, and nothing is done on a Socks5Client afterwards.
C12_CancelCloses ==
    [][result'.tag = "Cancelled" =>
          /\ pc' = "cancelled"
          /\ stream'.state # "open"
          /\ stream'.owner = "none"
          /\ result.tag = "Cancelled" =>
                /\ UNCHANGED hvars
                /\ io' # io => io'.client # "Socks5Client"]_vars

C12_Witness ==
    /\ result.tag = "Cancelled"
    /\ stream.state = "closed"
    /\ ops[Len(ops)].op = "req_write"

\* What connect returns for a connection response h that was read.
ConnectReturn(h) ==
    IF IsSucceeded(h.reply) THEN ConnectOk(h)
    ELSE [tag |-> "Err", error |-> ReplyError(h.reply)]

\* C13: what connect returns once the connection response is read is what it
\* returns for the same response carrying any other bound address, and the
\* returned value holds no address.
C13_BoundAddressIgnored ==
    (mode = "connect" /\ Idx("req_read") # {} /\ ops[Len(ops)].ok) =>
        /\ \A a \in Addresses :
              result = ConnectReturn([ops[Len(ops)].val EXCEPT !.address = a])
        /\ "address" \notin DOMAIN result

C13_Witness ==
    /\ mode = "connect"
    /\ result.tag = "Ok"
    /\ hp.address.atyp = "ipv6"
    /\ hp.address.host = 1

\* C14: a transport connect, write, flush or read that fails is the last
\* operation of the call: the call has ended, it returned that very error
\* (UnexpectedEof, undecodable message or transport error alike), and its
\* connection is not left open.
C14_FailureStopsAndPropagates ==
    \A i \in 1..Len(ops) :
        ~ops[i].ok =>
            /\ i = Len(ops)
            /\ pc = "done"
            /\ result = [tag |-> "Err", error |-> ops[i].val]
            /\ stream.state # "open"

C14_Witness ==
    /\ Idx("req_read") # {}
    /\ ~ops[Len(ops)].ok
    /\ result.tag = "Err"
    /\ result.error.kind = "UnexpectedEof"

\* The address variant a caller's address stands for.
VariantOf(a) ==
    CASE a.tag = "SocketAddrV4" -> "ipv4"
      [] a.tag = "SocketAddrV6" -> "ipv6"
      [] a.tag = "HostPort" -> "domain"

\* C15: the handshake request written offers the one method "no
\* authentication"; the connection request written carries TcpConnect in
\* connect and UdpAssociate in udp_associate, and its address is the caller's
\* address: same variant, same host, same port.
C15_RequestsWritten ==
    /\ \A i \in Idx("hs_write") :
          ops[i].ok =>
              /\ ops[i].val.tag = "HandshakeRequest"
              /\ ops[i].val.methods = <<SOCKS5_AUTH_METHOD_NONE>>
    /\ \A i \in Idx("req_write") :
          ops[i].ok =>
              /\ ops[i].val.tag = "TcpRequestHeader"
              /\ ops[i].val.command =
                    (IF mode = "connect" THEN "TcpConnect" ELSE "UdpAssociate")
              /\ ops[i].val.address.atyp = VariantOf(addr)
              /\ ops[i].val.address.host = addr.host
              /\ ops[i].val.address.port = addr.port

C15_Witness ==
    /\ mode = "connect"
    /\ addr.tag = "HostPort"
    /\ \E i \in Idx("req_write") : ops[i].ok

\* C16: ServerClient::connect calls the transport constructor exactly once
\* and does nothing else: no operation before the call is made, and once it
\* has returned the constructor call is its only operation; it returns a
\* client wrapping the stream the constructor returned, or the constructor's
\* error and no client.
C16_ServerClientConnect ==
    /\ scpc # "done" => scops = <<>> /\ scresult = NoVal
    /\ scpc = "done" =>
        /\ Len(scops) = 1
        /\ scops[1].op = "connect_proxied"
        /\ scops[1].ok =>
              scresult = [tag |-> "Ok", client |-> [stream |-> scops[1].val]]
        /\ ~scops[1].ok =>
              scresult = [tag |-> "Err", error |-> scops[1].val]

C16_Witness ==
    /\ scpc = "done"
    /\ scresult.tag = "Ok"
    /\ scresult.client.stream.target.atyp = "domain"

\* C18: a call opens at most one transport connection and every later
\* operation follows its successful opening; the connection is open exactly
\* while it has an owner, which is the suspended call during the handshake and
\* the returned client after a success; when the call ends without a client,
\* is cancelled, or the client is dropped, the connection is closed.
C18_OneConnectionOneOwner ==
    /\ Cardinality(Idx("tcp_connect")) <= 1
    /\ Len(ops) >= 1 => ops[1].op = "tcp_connect"
    /\ Len(ops) >= 2 => ops[1].ok
    /\ pc \in {"init", "tcp_connect"} => stream = [state |-> "none", owner |-> "none"]
    /\ pc \in SuspensionPoints \ {"tcp_connect"} =>
          stream = [state |-> "open", owner |-> "future"]
    /\ stream.state = "open" <=> stream.owner \in {"future", "client"}
    /\ stream.owner = "client" => result.tag = "Ok" /\ pc = "done"
    /\ (pc \in {"done", "cancelled"} /\ result.tag # "Ok") => stream.state # "open"
    /\ (io # NoVal /\ io.client = "Socks5Client") => result.tag = "Ok"

C18_Witness ==
    /\ result.tag = "Ok"
    /\ stream = [state |-> "closed", owner |-> "none"]
    /\ io # NoVal
    /\ io.client = "Socks5Client"

\* Every session's call: the running one and the parked ones.
Calls == [k \in DOMAIN parked \cup {cur} |-> IF k = cur THEN Running ELSE parked[k]]

\* The handshake steps of call c were taken in order, each after the
\* previous one succeeded, and the step it is suspended at is the next one.
InOrder(c) ==
    LET s == SelectSeq(c.ops, IsStep)
    IN /\ Len(s) <= 4
       /\ \A i \in 1..Len(s) : s[i].op = StepOrder[i] /\ (i < Len(s) => s[i].ok)
       /\ \A n \in 1..4 : c.pc = StepOrder[n] =>
              /\ Len(s) = n - 1
              /\ n > 1 => s[n - 1].ok

\* What call c returns, given the operations completed on its own connection.
OwnOutcome(c) ==
    LET last == c.ops[Len(c.ops)]
    IN IF ~last.ok THEN [tag |-> "Err", error |-> last.val]
       ELSE IF last.op = "hs_read" THEN [tag |-> "Panic"]
       ELSE IF ~IsSucceeded(last.val.reply)
            THEN [tag |-> "Err", error |-> ReplyError(last.val.reply)]
       ELSE IF c.mode = "connect" THEN ConnectOk(last.val)
       ELSE UdpAssociateOk(last.val, c.addr)

\* C17: with two sessions interleaved step by step, each session's handshake
\* steps stay in order, the result of each ended call is the one its own
\* connection's operations give, and a step of the running session leaves
\* every other session's call and stream as they were.
C17_SessionsIndependent ==
    /\ [](\A k \in DOMAIN Calls :
            /\ InOrder(Calls[k])
            /\ Calls[k].pc = "done" => Calls[k].result = OwnOutcome(Calls[k]))
    /\ [][/\ cur' = cur => parked' = parked
          /\ cur' # cur => parked'[cur] = Running /\ Running' = parked[cur']]_vars

C17_Witness ==
    /\ pc = "done"
    /\ result.tag = "Ok"
    /\ \E k \in DOMAIN parked :
          /\ parked[k].pc = "done"
          /\ parked[k].result.tag = "Err"
          /\ Len(parked[k].ops) = Len(ops)
          /\ parked[k].mode = mode

\* C19: when every issued operation completes, the call at some time returns
\* Ok or Err; and a call suspended at a read leaves it only by that read
\* completing, never on its own.
C19_ReturnsOrWaits ==
    /\ <>(result.tag \in {"Ok", "Err"})
    /\ [][(pc \in {"hs_read", "req_read"} /\ pc' # pc) =>
             /\ Len(ops') = Len(ops) + 1
             /\ ops'[Len(ops')].op = pc]_vars
====
